---- MODULE Spec2Model ----
(***************************************************************************)
(* queuectl: a persistent job queue (SQLite store), worker processes that   *)
(* lease and execute jobs, and the operator commands enqueue, dlq retry,    *)
(* config set, config get, status and worker start.                         *)
(*                                                                          *)
(* Time is counted in ticks, TicksPerSec ticks to the second; a tick stands *)
(* for the microsecond resolution of datetime.utcnow().  Timestamps are     *)
(* stored as ISO-8601 strings and compared as strings by SQLite: IsoKey     *)
(* gives the rank of the string that isoformat() + "Z" produces.            *)
(* Worker ids are the integers i of "worker-<i>".  NULL is SQL NULL/None.   *)
(***************************************************************************)
EXTENDS Integers, FiniteSets, Sequences, TLC

\* ---------------------------------------------------------------- bounds
MaxTime == 2
MaxProcs == 2
MaxDlqRetries == 2
MaxEnqueues == 2
TicksPerSec == 2

NULL == -1
NoJob == [id |-> "none"]

JobIds == {"a", "b"}
OneJobId == {"a"}
\* "fail" exits non-zero on every run, "flaky" exits 0 on some runs
Commands == {"fail", "flaky"}
\* the values of "max_retries" in the enqueue JSON (NULL: key not given)
MaxRetriesArgs == {NULL, 0, 1}
QueueMaxRetriesArgs == {0, 1}
\* the values given to config set max_retries
ConfigMaxRetries == {"1", "3"}
\* the values given to config set backoff_base
ConfigBackoffBases == {"0.5"}

Procs == 1..MaxProcs
Enqueuers == 1..MaxEnqueues
\* an enqueue invocation that has not been made
NoEnqueue == [pc |-> "idle"]
\* data.get(key) of a key that the JSON object does not have
Missing == "<missing>"
\* a job_data that json.loads rejects
Malformed == [json |-> "malformed"]
\* the job_data arguments given to enqueue
JobDatas ==
    {Malformed} \cup [json : {"object"},
                      id : OneJobId \cup {"", Missing},
                      command : Commands \cup {"", Missing},
                      max_retries : {NULL, 1}]
\* no config set, config get, status or store opening yet
NoOutput == [seq |-> 0, op |-> "none", key |-> "", value |-> "", exit |-> 0,
             prev_op |-> "none", prev_key |-> ""]
\* the KEY arguments given to config set and config get
ConfigKeys == {"max-retries", "max_retries", "backoff-base", "backoff_base"}
\* the VALUE arguments given to config set
ConfigValues == {"1", "3", "0.5", "abc"}
\* stop_workers is not running
NotStopping == [at |-> "idle", todo |-> {}]
States == {"pending", "processing", "completed", "failed", "dead"}

VARIABLES
    jobs,         \* the jobs table: id -> row
    config,       \* the config table: key -> value
    clock,        \* wall-clock time in ticks
    pc,           \* position of each worker process
    worker_id,    \* Worker.worker_id: i for "worker-<i>"
    running,      \* Worker.running
    current,      \* the row returned to the worker by get_next_pending_job
    lease_now,    \* `now` computed by get_next_pending_job before its transaction
    new_attempts, \* the value returned by increment_attempts
    backoff_base, \* Worker.backoff_base, in units of 1/TicksPerSec
    dlq_checked,  \* per job id: dlq retry invocations between check and write
    dlq_runs,     \* dlq retry invocations that passed the check so far
    enq,          \* the enqueue invocations: position, job_data, exit code
    cli_out,      \* the result of the last config set, config get, status,
                  \* worker start, worker stop or store opening
    processes,    \* WorkerManager.processes of a manager that is used for
                  \* more than one start / stop
    stop_pc       \* position of that manager's stop_workers

vars == <<jobs, config, clock, pc, worker_id, running, current, lease_now,
          new_attempts, backoff_base, dlq_checked, dlq_runs, enq, cli_out,
          processes, stop_pc>>
store == <<jobs, config>>
workerVars == <<pc, worker_id, running, current, lease_now, new_attempts,
                backoff_base>>
retryVars == <<dlq_checked, dlq_runs>>
cliVars == <<enq, cli_out>>
mgrVars == <<processes, stop_pc>>

\* ------------------------------------------------------------ timestamps
\* Rank of datetime.isoformat() + "Z" under string comparison.  isoformat()
\* omits the fraction when microsecond = 0, and "Z" sorts after ".", so within
\* one second the timestamp without fraction is the greatest.
IsoKey(t) ==
    LET sec == t \div TicksPerSec
        frac == t % TicksPerSec
    IN  sec * (TicksPerSec + 1) + (IF frac = 0 THEN TicksPerSec ELSE frac)

StrLE(a, b) == IsoKey(a) <= IsoKey(b)

\* ------------------------------------------------------- config values
\* the texts that int() accepts, with their values
IntTexts == ("0" :> 0) @@ ("1" :> 1) @@ ("2" :> 2) @@ ("3" :> 3)

\* int(value) succeeds
IsInt(text) == text \in DOMAIN IntTexts

\* int(value)
ParseInt(text) == IntTexts[text]

\* float(value) succeeds
IsFloat(text) == IsInt(text) \/ text \in {"0.5", "2.0"}

\* float(value), in units of 1/TicksPerSec
ParseFloat(text) ==
    CASE text = "0.5" -> TicksPerSec \div 2
      [] text = "2.0" -> 2 * TicksPerSec
      [] OTHER -> IntTexts[text] * TicksPerSec

\* JobStorage.get_config
get_config(cfg, key, default) ==
    IF key \in DOMAIN cfg THEN cfg[key] ELSE default

\* JobStorage.set_config: INSERT OR REPLACE
set_config(cfg, key, value) ==
    [k \in DOMAIN cfg \cup {key} |-> IF k = key THEN value ELSE cfg[k]]

RECURSIVE Pow(_, _)
Pow(b, n) == IF n <= 0 THEN 1 ELSE b * Pow(b, n - 1)

\* Worker._calculate_backoff: backoff_base ** attempts seconds, in ticks
\* (base is in units of 1/TicksPerSec; the result is cut to the tick)
_calculate_backoff(base, attempts) ==
    (Pow(base, attempts) * TicksPerSec) \div Pow(TicksPerSec, attempts)

\* retry_at of process_job: utcnow() cut to the second, plus the delay
RetryAt(now, delay) == (now \div TicksPerSec) * TicksPerSec + delay

\* ----------------------------------------------------------------- store
\* JobStorage.create_job: the INSERT (the primary key rejects a present id)
create_job(J, cfg, id, command, max_retries, now) ==
    IF id \in DOMAIN J THEN J
    ELSE [k \in DOMAIN J \cup {id} |->
            IF k = id
            THEN [command |-> command, state |-> "pending", attempts |-> 0,
                  max_retries |-> IF max_retries = NULL
                                  THEN ParseInt(get_config(cfg, "max_retries", "3"))
                                  ELSE max_retries,
                  created_at |-> now, updated_at |-> now,
                  locked_by |-> NULL, locked_at |-> NULL, retry_at |-> NULL]
            ELSE J[k]]

\* LockRow without "retry_at = NULL"
LockRow_keeps_retry_at(J, id, wid, now) ==
    [J EXCEPT ![id].state = "processing", ![id].locked_by = wid,
              ![id].locked_at = now, ![id].updated_at = now]

\* the SET clause shared by the lease UPDATEs
LockRow(J, id, wid, now) ==
    [J EXCEPT ![id].state = "processing", ![id].locked_by = wid,
              ![id].locked_at = now, ![id].updated_at = now,
              ![id].retry_at = NULL]

\* JobStorage.lock_job
lock_job(J, id, wid, now) ==
    IF id \in DOMAIN J /\ J[id].state \in {"pending", "failed"}
    THEN LockRow(J, id, wid, now)
    ELSE J

\* SELECT id ... WHERE state = 'failed' AND (retry_at IS NULL OR retry_at <= ?)
FailedReady(J, now) ==
    {j \in DOMAIN J : J[j].state = "failed"
        /\ (J[j].retry_at = NULL \/ StrLE(J[j].retry_at, now))}

\* ORDER BY updated_at ASC LIMIT 1 (any of the rows that tie)
OldestUpdated(J, S) ==
    {j \in S : \A k \in S : StrLE(J[j].updated_at, J[k].updated_at)}

PendingRows(J) == {j \in DOMAIN J : J[j].state = "pending"}

\* ORDER BY created_at ASC LIMIT 1
OldestCreated(J, S) ==
    {j \in S : \A k \in S : StrLE(J[j].created_at, J[k].created_at)}

\* SELECT * ... WHERE locked_by = ? AND state = 'processing'
\* ORDER BY locked_at DESC LIMIT 1
SelectLocked(J, wid) ==
    LET S == {j \in DOMAIN J : J[j].locked_by = wid
                               /\ J[j].state = "processing"}
    IN  {j \in S : \A k \in S : StrLE(J[k].locked_at, J[j].locked_at)}

\* the dict(row) handed to the worker
Snapshot(J, id) ==
    [id |-> id, command |-> J[id].command, max_retries |-> J[id].max_retries]

\* JobStorage.get_next_pending_job: the set of <<table after, returned row>>
get_next_pending_job(J, wid, now) ==
    LET cands == IF FailedReady(J, now) # {}
                 THEN OldestUpdated(J, FailedReady(J, now))
                 ELSE OldestCreated(J, PendingRows(J))
    IN  IF cands = {} THEN {<<J, NoJob>>}
        ELSE UNION {
               LET J2 == LockRow(J, j, wid, now)
               IN  {<<J2, Snapshot(J2, r)>> : r \in SelectLocked(J2, wid)}
               : j \in cands}

\* update_job_state without "locked_by = NULL, locked_at = NULL"
update_job_state_keeps_lock(J, id, state, attempts, retry_at, now) ==
    IF id \notin DOMAIN J THEN J
    ELSE [J EXCEPT ![id].state = state,
                   ![id].attempts = IF attempts # NULL THEN attempts ELSE @,
                   ![id].updated_at = now,
                   ![id].retry_at = retry_at]

\* JobStorage.update_job_state (attempts, retry_at: NULL when not given)
update_job_state(J, id, state, attempts, retry_at, now) ==
    IF id \notin DOMAIN J THEN J
    ELSE [J EXCEPT ![id].state = state,
                   ![id].attempts = IF attempts # NULL THEN attempts ELSE @,
                   ![id].updated_at = now,
                   ![id].locked_by = NULL,
                   ![id].locked_at = NULL,
                   ![id].retry_at = retry_at]

\* get_job_stats without the loop that adds the states that have no row
get_job_stats_grouped_only(J) ==
    [s \in {J[j].state : j \in DOMAIN J} |->
        Cardinality({j \in DOMAIN J : J[j].state = s})]

\* JobStorage.get_job_stats: SELECT state, COUNT(*) ... GROUP BY state, then a
\* 0 for each of the five states that has no row
get_job_stats(J) ==
    LET grouped == [s \in {J[j].state : j \in DOMAIN J} |->
                       Cardinality({j \in DOMAIN J : J[j].state = s})]
    IN  [s \in DOMAIN grouped \cup
               {"pending", "processing", "completed", "failed", "dead"} |->
            IF s \in DOMAIN grouped THEN grouped[s] ELSE 0]

\* JobStorage.increment_attempts: the UPDATE
increment_attempts(J, id, now) ==
    IF id \notin DOMAIN J THEN J
    ELSE [J EXCEPT ![id].attempts = @ + 1, ![id].updated_at = now]

\* JobStorage.increment_attempts: the value returned.  get_job opens a second
\* connection while the UPDATE of the first is not yet committed, so it reads
\* the row as it was before the UPDATE.
increment_attempts_result(J, id) ==
    IF id \in DOMAIN J THEN J[id].attempts ELSE 0

\* ---------------------------------------------------------------- Init
Init ==
    /\ jobs = <<>>
    /\ config = [max_retries |-> "3", backoff_base |-> "2"]
    /\ clock = 0
    /\ pc = [p \in Procs |-> "unstarted"]
    /\ worker_id = [p \in Procs |-> NULL]
    /\ running = [p \in Procs |-> TRUE]
    /\ current = [p \in Procs |-> NoJob]
    /\ lease_now = [p \in Procs |-> NULL]
    /\ new_attempts = [p \in Procs |-> NULL]
    /\ backoff_base = [p \in Procs |-> NULL]
    /\ dlq_checked = [j \in JobIds |-> 0]
    /\ dlq_runs = 0
    /\ enq = [i \in Enqueuers |-> NoEnqueue]
    /\ cli_out = NoOutput
    /\ processes = {}
    /\ stop_pc = NotStopping

\* The database file does not exist yet: no table, no row.
InitFresh ==
    /\ jobs = <<>>
    /\ config = <<>>
    /\ clock = 0
    /\ pc = [p \in Procs |-> "unstarted"]
    /\ worker_id = [p \in Procs |-> NULL]
    /\ running = [p \in Procs |-> TRUE]
    /\ current = [p \in Procs |-> NoJob]
    /\ lease_now = [p \in Procs |-> NULL]
    /\ new_attempts = [p \in Procs |-> NULL]
    /\ backoff_base = [p \in Procs |-> NULL]
    /\ dlq_checked = [j \in JobIds |-> 0]
    /\ dlq_runs = 0
    /\ enq = [i \in Enqueuers |-> NoEnqueue]
    /\ cli_out = NoOutput
    /\ processes = {}
    /\ stop_pc = NotStopping

\* -------------------------------------------------------------- actions
Tick ==
    /\ clock < MaxTime
    /\ clock' = clock + 1
    /\ UNCHANGED <<mgrVars, cliVars, store, workerVars, retryVars>>

\* time that advances: to MaxTime, and past it while a failed job waits for
\* its retry_at
TickFair ==
    /\ \/ clock < MaxTime
       \/ \E j \in DOMAIN jobs : /\ jobs[j].state = "failed"
                                 /\ jobs[j].retry_at # NULL
                                 /\ ~StrLE(jobs[j].retry_at, clock)
    /\ clock' = clock + 1
    /\ UNCHANGED <<mgrVars, cliVars, store, workerVars, retryVars>>

\* cli.enqueue with a well-formed job_data
enqueue(id, command, max_retries) ==
    /\ id \notin DOMAIN jobs
    /\ jobs' = create_job(jobs, config, id, command, max_retries, clock)
    /\ UNCHANGED <<mgrVars, cliVars, config, clock, workerVars, retryVars>>

\* `not value` of a string or None
Falsy(value) == value \in {"", Missing}

\* the job_data passes json.loads and the check of the required fields
WellFormed(job_data) ==
    /\ job_data.json = "object"
    /\ ~Falsy(job_data.id)
    /\ ~Falsy(job_data.command)

\* an enqueue that does not check the required fields
enqueue_check_accepts_empty(i, job_data) ==
    /\ enq[i].pc = "idle"
    /\ \A k \in Enqueuers : k < i => enq[k].pc # "idle"
    /\ enq' = [enq EXCEPT ![i] =
                  IF job_data.json = "malformed"
                  THEN [pc |-> "done", job_data |-> job_data, exit |-> 1,
                        err |-> "Invalid JSON format"]
                  ELSE IF job_data.id \in DOMAIN jobs
                  THEN [pc |-> "done", job_data |-> job_data, exit |-> 1,
                        err |-> "Job already exists"]
                  ELSE [pc |-> "create", job_data |-> job_data]]
    /\ UNCHANGED <<mgrVars, store, clock, workerVars, retryVars, cli_out>>

\* cli.enqueue up to and including get_job: exit 1 on malformed JSON, on a
\* missing or empty id or command, and on an id that get_job finds
enqueue_check(i, job_data) ==
    /\ enq[i].pc = "idle"
    /\ \A k \in Enqueuers : k < i => enq[k].pc # "idle"
    /\ enq' = [enq EXCEPT ![i] =
                  IF job_data.json = "malformed"
                  THEN [pc |-> "done", job_data |-> job_data, exit |-> 1,
                        err |-> "Invalid JSON format"]
                  ELSE IF Falsy(job_data.id) \/ Falsy(job_data.command)
                  THEN [pc |-> "done", job_data |-> job_data, exit |-> 1,
                        err |-> "'id' and 'command' are required fields"]
                  ELSE IF job_data.id \in DOMAIN jobs
                  THEN [pc |-> "done", job_data |-> job_data, exit |-> 1,
                        err |-> "Job already exists"]
                  ELSE [pc |-> "create", job_data |-> job_data]]
    /\ UNCHANGED <<mgrVars, store, clock, workerVars, retryVars, cli_out>>

\* an enqueue whose INSERT replaces the row of an id that is present
enqueue_create_replaces(i) ==
    /\ enq[i].pc = "create"
    /\ LET job_data == enq[i].job_data
           row == create_job(<<>>, config, job_data.id, job_data.command,
                             job_data.max_retries, clock)[job_data.id]
       IN  /\ jobs' = [j \in DOMAIN jobs \cup {job_data.id} |->
                          IF j = job_data.id THEN row ELSE jobs[j]]
           /\ enq' = [enq EXCEPT ![i] =
                         [pc |-> "done", job_data |-> job_data, exit |-> 0,
                          err |-> ""]]
    /\ UNCHANGED <<mgrVars, config, clock, workerVars, retryVars, cli_out>>

\* cli.enqueue from create_job on: the INSERT of an id that is present raises
\* IntegrityError (id is the primary key), which the handler turns into exit 1
enqueue_create(i) ==
    /\ enq[i].pc = "create"
    /\ LET job_data == enq[i].job_data
       IN  IF job_data.id \in DOMAIN jobs
           THEN /\ jobs' = jobs
                /\ enq' = [enq EXCEPT ![i] =
                              [pc |-> "done", job_data |-> job_data, exit |-> 1,
                               err |-> "UNIQUE constraint failed: jobs.id"]]
           ELSE /\ jobs' = create_job(jobs, config, job_data.id, job_data.command,
                                      job_data.max_retries, clock)
                /\ enq' = [enq EXCEPT ![i] =
                              [pc |-> "done", job_data |-> job_data, exit |-> 0,
                               err |-> ""]]
    /\ UNCHANGED <<mgrVars, config, clock, workerVars, retryVars, cli_out>>

\* config set that also rewrites the max_retries of the existing jobs
config_set_rewrites_jobs(key, value) ==
    /\ config' = [config EXCEPT ![key] = value]
    /\ config' # config
    /\ jobs' = IF key = "max_retries"
               THEN [j \in DOMAIN jobs |->
                        [jobs[j] EXCEPT !.max_retries = ParseInt(value)]]
               ELSE jobs
    /\ UNCHANGED <<mgrVars, cliVars, clock, workerVars, retryVars>>

\* cli.set (config set KEY VALUE)
config_set(key, value) ==
    /\ config' = [config EXCEPT ![key] = value]
    /\ config' # config
    /\ UNCHANGED <<mgrVars, cliVars, jobs, clock, workerVars, retryVars>>

\* the result of a CLI command, after the result of the one before it
Output(op, key, value, exit) ==
    [seq |-> 1 - cli_out.seq, op |-> op, key |-> key, value |-> value,
     exit |-> exit, prev_op |-> cli_out.op, prev_key |-> cli_out.key]

\* a key_map without the dash spellings
key_map_underscore_only(key) == key

\* key_map.get(key, key) of cli.set and cli.get
key_map(key) ==
    CASE key = "max-retries" -> "max_retries"
      [] key = "max_retries" -> "max_retries"
      [] key = "backoff-base" -> "backoff_base"
      [] key = "backoff_base" -> "backoff_base"
      [] OTHER -> key

\* cli.set (config set KEY VALUE) with the key and the value as typed
set(key, value) ==
    LET normalized_key == key_map(key)
        valid == /\ normalized_key = "max_retries" => IsInt(value)
                 /\ normalized_key = "backoff_base" => IsFloat(value)
    IN  /\ config' = IF valid THEN set_config(config, normalized_key, value)
                      ELSE config
        /\ cli_out' = Output("set", key, value, IF valid THEN 0 ELSE 1)
        /\ UNCHANGED <<mgrVars, jobs, clock, workerVars, retryVars, enq>>

\* cli.get (config get KEY)
get(key) ==
    LET normalized_key == key_map(key)
        value == get_config(config, normalized_key, Missing)
    IN  /\ cli_out' = IF Falsy(value) THEN Output("get", key, Missing, 1)
                       ELSE Output("get", key, value, 0)
        /\ UNCHANGED <<mgrVars, store, clock, workerVars, retryVars, enq>>

\* an _init_db that writes the defaults with INSERT OR REPLACE
_init_db_replaces ==
    /\ config' = set_config(set_config(config, "max_retries", "3"),
                            "backoff_base", "2")
    /\ cli_out' = Output("open", "", "", 0)
    /\ UNCHANGED <<mgrVars, jobs, clock, workerVars, retryVars, enq>>

\* JobStorage.__init__ / _init_db in a new process: CREATE TABLE IF NOT EXISTS,
\* ALTER TABLE ADD COLUMN (refused when the column exists), INSERT OR IGNORE
_init_db ==
    /\ config' = [k \in DOMAIN config \cup {"max_retries", "backoff_base"} |->
                     IF k \in DOMAIN config THEN config[k]
                     ELSE IF k = "max_retries" THEN "3" ELSE "2"]
    /\ cli_out' = Output("open", "", "", 0)
    /\ UNCHANGED <<mgrVars, jobs, clock, workerVars, retryVars, enq>>

\* a process has opened the store (every CLI command does, before anything else)
Opened == {"max_retries", "backoff_base"} \subseteq DOMAIN config

\* cli.status: the job counts it prints
status ==
    /\ cli_out' = Output("status", "", get_job_stats(jobs), 0)
    /\ UNCHANGED <<mgrVars, store, clock, workerVars, retryVars, enq>>

\* cli.retry (dlq retry), first half: get_job and the two checks
dlq_retry_check(id) ==
    /\ dlq_runs < MaxDlqRetries
    /\ id \in DOMAIN jobs
    /\ jobs[id].state = "dead"
    /\ dlq_checked' = [dlq_checked EXCEPT ![id] = @ + 1]
    /\ dlq_runs' = dlq_runs + 1
    /\ UNCHANGED <<mgrVars, cliVars, store, clock, workerVars>>

\* a dlq retry write that resets the state and keeps the attempts
dlq_retry_write_keeps_attempts(id) ==
    /\ dlq_checked[id] > 0
    /\ jobs' = update_job_state(jobs, id, "pending", NULL, NULL, clock)
    /\ dlq_checked' = [dlq_checked EXCEPT ![id] = @ - 1]
    /\ UNCHANGED <<mgrVars, cliVars, config, clock, workerVars, dlq_runs>>

\* cli.retry, second half: update_job_state(job_id, "pending", attempts=0)
dlq_retry_write(id) ==
    /\ dlq_checked[id] > 0
    /\ jobs' = update_job_state(jobs, id, "pending", 0, NULL, clock)
    /\ dlq_checked' = [dlq_checked EXCEPT ![id] = @ - 1]
    /\ UNCHANGED <<mgrVars, cliVars, config, clock, workerVars, dlq_runs>>

Unstarted == {p \in Procs : pc[p] = "unstarted"}

\* cli.start / WorkerManager.start_workers in a new CLI process: the manager
\* of a new process tracks no worker, and numbers its workers from 1
start_workers(count) ==
    LET first == MaxProcs - Cardinality(Unstarted)
        new == {p \in Procs : first < p /\ p <= first + count}
    IN  /\ count >= 1
        /\ Cardinality(Unstarted) >= count
        /\ pc' = [p \in Procs |-> IF p \in new THEN "loop" ELSE pc[p]]
        /\ worker_id' = [p \in Procs |-> IF p \in new THEN p - first
                                          ELSE worker_id[p]]
        /\ backoff_base' =
              [p \in Procs |->
                  IF p \in new
                  THEN ParseFloat(get_config(config, "backoff_base", "2.0"))
                  ELSE backoff_base[p]]
        /\ UNCHANGED <<mgrVars, cliVars, store, clock, running, current, lease_now, new_attempts,
                       retryVars>>

Live(p) == pc[p] \in {"loop", "lease", "exec", "failed"}

\* a cli.start that does not look at the tracked workers
start_untracked(count) ==
    LET first == MaxProcs - Cardinality(Unstarted)
        new == {p \in Procs : first < p /\ p <= first + count}
    IN  /\ stop_pc.at = "idle"
        /\ Cardinality(Unstarted) >= count
        /\ IF count < 1
           THEN /\ cli_out' = Output("start", "", count, 1)
                /\ UNCHANGED <<pc, worker_id, backoff_base, processes>>
           ELSE /\ pc' = [p \in Procs |-> IF p \in new THEN "loop" ELSE pc[p]]
                /\ worker_id' = [p \in Procs |-> IF p \in new THEN p - first
                                                  ELSE worker_id[p]]
                /\ backoff_base' =
                      [p \in Procs |->
                          IF p \in new
                          THEN ParseFloat(get_config(config, "backoff_base", "2.0"))
                          ELSE backoff_base[p]]
                /\ processes' = processes \cup new
                /\ cli_out' = Output("start", "", count, 0)
        /\ UNCHANGED <<store, clock, running, current, lease_now, new_attempts,
                       retryVars, enq, stop_pc>>

\* cli.start on a manager that may already track workers: the two checks,
\* then WorkerManager.start_workers, which numbers its workers from 1
start(count) ==
    LET first == MaxProcs - Cardinality(Unstarted)
        new == {p \in Procs : first < p /\ p <= first + count}
    IN  /\ stop_pc.at = "idle"
        /\ Cardinality(Unstarted) >= count
        /\ IF count < 1 \/ processes # {}
           THEN /\ cli_out' = Output("start", "", count, 1)
                /\ UNCHANGED <<pc, worker_id, backoff_base, processes>>
           ELSE /\ pc' = [p \in Procs |-> IF p \in new THEN "loop" ELSE pc[p]]
                /\ worker_id' = [p \in Procs |-> IF p \in new THEN p - first
                                                  ELSE worker_id[p]]
                /\ backoff_base' =
                      [p \in Procs |->
                          IF p \in new
                          THEN ParseFloat(get_config(config, "backoff_base", "2.0"))
                          ELSE backoff_base[p]]
                /\ processes' = new
                /\ cli_out' = Output("start", "", count, 0)
        /\ UNCHANGED <<store, clock, running, current, lease_now, new_attempts,
                       retryVars, enq, stop_pc>>

\* the tracked process that a loop of stop_workers reaches next
NextTracked == CHOOSE p \in stop_pc.todo : \A q \in stop_pc.todo : p <= q

\* WorkerManager.stop_workers: the test of the tracked list
stop_workers ==
    /\ stop_pc.at = "idle"
    /\ IF processes = {}
       THEN /\ cli_out' = Output("stop", "", "No workers running", 0)
            /\ UNCHANGED stop_pc
       ELSE /\ stop_pc' = [at |-> "terminate", todo |-> processes]
            /\ UNCHANGED cli_out
    /\ UNCHANGED <<store, clock, workerVars, retryVars, enq, processes>>

\* WorkerManager.stop_workers: process.terminate() of the next tracked process
\* if it is alive (SIGTERM runs the worker's _signal_handler)
stop_workers_terminate ==
    /\ stop_pc.at = "terminate"
    /\ running' = IF Live(NextTracked) THEN [running EXCEPT ![NextTracked] = FALSE]
                  ELSE running
    /\ stop_pc' = IF stop_pc.todo = {NextTracked}
                  THEN [at |-> "join", todo |-> processes]
                  ELSE [stop_pc EXCEPT !.todo = @ \ {NextTracked}]
    /\ UNCHANGED <<store, clock, pc, worker_id, current, lease_now, new_attempts,
                   backoff_base, retryVars, cliVars, processes>>

\* a stop_workers that does not kill the worker that outlives the join
stop_workers_join_no_kill ==
    /\ stop_pc.at = "join"
    /\ IF stop_pc.todo = {NextTracked}
       THEN /\ processes' = {}
            /\ stop_pc' = NotStopping
            /\ cli_out' = Output("stop", "", "All workers stopped", 0)
       ELSE /\ stop_pc' = [stop_pc EXCEPT !.todo = @ \ {NextTracked}]
            /\ UNCHANGED <<processes, cli_out>>
    /\ UNCHANGED <<store, clock, workerVars, retryVars, enq>>

\* WorkerManager.stop_workers: process.join(timeout=30) of the next tracked
\* process, process.kill() if it is still alive; after the last one the
\* tracked list is cleared
stop_workers_join ==
    /\ stop_pc.at = "join"
    /\ IF Live(NextTracked)
       THEN /\ pc' = [pc EXCEPT ![NextTracked] = "killed"]
            /\ running' = [running EXCEPT ![NextTracked] = TRUE]
            /\ lease_now' = [lease_now EXCEPT ![NextTracked] = NULL]
            /\ new_attempts' = [new_attempts EXCEPT ![NextTracked] = NULL]
       ELSE UNCHANGED <<pc, running, lease_now, new_attempts>>
    /\ IF stop_pc.todo = {NextTracked}
       THEN /\ processes' = {}
            /\ stop_pc' = NotStopping
            /\ cli_out' = Output("stop", "", "All workers stopped", 0)
       ELSE /\ stop_pc' = [stop_pc EXCEPT !.todo = @ \ {NextTracked}]
            /\ UNCHANGED <<processes, cli_out>>
    /\ UNCHANGED <<store, clock, worker_id, current, backoff_base, retryVars, enq>>

\* Worker._signal_handler
_signal_handler(p) ==
    /\ Live(p)
    /\ running[p]
    /\ running' = [running EXCEPT ![p] = FALSE]
    /\ UNCHANGED <<mgrVars, cliVars, store, clock, pc, worker_id, current, lease_now,
                   new_attempts, backoff_base, retryVars>>

\* SIGKILL (the escalation of stop_workers, or any ungraceful death)
kill(p) ==
    /\ Live(p)
    /\ pc' = [pc EXCEPT ![p] = "killed"]
    /\ running' = [running EXCEPT ![p] = TRUE]
    /\ lease_now' = [lease_now EXCEPT ![p] = NULL]
    /\ new_attempts' = [new_attempts EXCEPT ![p] = NULL]
    /\ UNCHANGED <<mgrVars, cliVars, store, clock, worker_id, current, backoff_base, retryVars>>

\* run_loop that never reads the running flag: `while True:`
run_loop_ignores_running(p) ==
    /\ pc[p] = "loop"
    /\ pc' = [pc EXCEPT ![p] = "lease"]
    /\ lease_now' = [lease_now EXCEPT ![p] = clock]
    /\ UNCHANGED <<mgrVars, cliVars, store, clock, worker_id, running, current, new_attempts,
                   backoff_base, retryVars>>

\* Worker.run: the while test; then get_next_pending_job computes `now`
run_loop(p) ==
    /\ pc[p] = "loop"
    /\ IF running[p]
       THEN /\ pc' = [pc EXCEPT ![p] = "lease"]
            /\ lease_now' = [lease_now EXCEPT ![p] = clock]
       ELSE /\ pc' = [pc EXCEPT ![p] = "exited"]
            /\ UNCHANGED lease_now
    /\ UNCHANGED <<mgrVars, cliVars, store, clock, worker_id, running, current, new_attempts,
                   backoff_base, retryVars>>

\* Worker.run: the transaction of get_next_pending_job
run_lease(p) ==
    /\ pc[p] = "lease"
    /\ \E res \in get_next_pending_job(jobs, worker_id[p], lease_now[p]) :
          /\ jobs' = res[1]
          /\ current' = [current EXCEPT ![p] = res[2]]
          /\ pc' = [pc EXCEPT ![p] = IF res[2] = NoJob THEN "loop" ELSE "exec"]
    /\ lease_now' = [lease_now EXCEPT ![p] = NULL]
    /\ UNCHANGED <<mgrVars, cliVars, config, clock, worker_id, running, new_attempts, backoff_base,
                   retryVars>>

\* process_job_success that counts the successful run as an attempt:
\* update_job_state(job_id, "completed", attempts=attempts + 1)
process_job_success_counts_attempt(p) ==
    /\ pc[p] = "exec"
    /\ current[p].command \in {"ok", "flaky"}
    /\ jobs' = update_job_state(jobs, current[p].id, "completed",
                                jobs[current[p].id].attempts + 1, NULL, clock)
    /\ pc' = [pc EXCEPT ![p] = "loop"]
    /\ current' = [current EXCEPT ![p] = NoJob]
    /\ UNCHANGED <<mgrVars, cliVars, config, clock, worker_id, running, lease_now, new_attempts,
                   backoff_base, retryVars>>

\* Worker.process_job: the command exits 0
process_job_success(p) ==
    /\ pc[p] = "exec"
    /\ current[p].command \in {"ok", "flaky"}
    /\ jobs' = update_job_state(jobs, current[p].id, "completed", NULL, NULL, clock)
    /\ pc' = [pc EXCEPT ![p] = "loop"]
    /\ current' = [current EXCEPT ![p] = NoJob]
    /\ UNCHANGED <<mgrVars, cliVars, config, clock, worker_id, running, lease_now, new_attempts,
                   backoff_base, retryVars>>

\* Worker.process_job: the command fails; increment_attempts
process_job_failure(p) ==
    /\ pc[p] = "exec"
    /\ current[p].command \in {"fail", "flaky"}
    /\ jobs' = increment_attempts(jobs, current[p].id, clock)
    /\ new_attempts' = [new_attempts EXCEPT ![p] =
                            increment_attempts_result(jobs, current[p].id)]
    /\ pc' = [pc EXCEPT ![p] = "failed"]
    /\ UNCHANGED <<mgrVars, cliVars, config, clock, worker_id, running, current, lease_now,
                   backoff_base, retryVars>>

\* process_job_outcome that also writes the value it got from
\* increment_attempts: update_job_state(job_id, "failed", attempts=new_attempts, ...)
process_job_outcome_writes_attempts(p) ==
    /\ pc[p] = "failed"
    /\ IF new_attempts[p] >= current[p].max_retries
       THEN jobs' = update_job_state(jobs, current[p].id, "dead", NULL, NULL, clock)
       ELSE jobs' = update_job_state(jobs, current[p].id, "failed", new_attempts[p],
                        RetryAt(clock, _calculate_backoff(backoff_base[p],
                                                          new_attempts[p])),
                        clock)
    /\ pc' = [pc EXCEPT ![p] = "loop"]
    /\ current' = [current EXCEPT ![p] = NoJob]
    /\ new_attempts' = [new_attempts EXCEPT ![p] = NULL]
    /\ UNCHANGED <<mgrVars, cliVars, config, clock, worker_id, running, lease_now, backoff_base,
                   retryVars>>

\* Worker.process_job: the retry decision and its update_job_state
process_job_outcome(p) ==
    /\ pc[p] = "failed"
    /\ IF new_attempts[p] >= current[p].max_retries
       THEN jobs' = update_job_state(jobs, current[p].id, "dead", NULL, NULL, clock)
       ELSE jobs' = update_job_state(jobs, current[p].id, "failed", NULL,
                        RetryAt(clock, _calculate_backoff(backoff_base[p],
                                                          new_attempts[p])),
                        clock)
    /\ pc' = [pc EXCEPT ![p] = "loop"]
    /\ current' = [current EXCEPT ![p] = NoJob]
    /\ new_attempts' = [new_attempts EXCEPT ![p] = NULL]
    /\ UNCHANGED <<mgrVars, cliVars, config, clock, worker_id, running, lease_now, backoff_base,
                   retryVars>>

\* The whole system (operator commands and workers) driven on one job id.
Next ==
    \/ Tick
    \/ \E id \in OneJobId, c \in Commands, m \in MaxRetriesArgs : enqueue(id, c, m)
    \/ \E v \in ConfigMaxRetries : config_set("max_retries", v)
    \/ \E v \in ConfigBackoffBases : config_set("backoff_base", v)
    \/ \E id \in JobIds : dlq_retry_check(id)
    \/ \E id \in JobIds : dlq_retry_write(id)
    \/ \E n \in 1..MaxProcs : start_workers(n)
    \/ \E p \in Procs : _signal_handler(p)
    \/ \E p \in Procs : kill(p)
    \/ \E p \in Procs : run_loop(p)
    \/ \E p \in Procs : run_lease(p)
    \/ \E p \in Procs : process_job_success(p)
    \/ \E p \in Procs : process_job_failure(p)
    \/ \E p \in Procs : process_job_outcome(p)

Spec == Init /\ [][Next]_vars

\* Producers and workers on two job ids, without dlq retry and config set.
NextQueue ==
    \/ Tick
    \/ \E id \in JobIds, c \in Commands, m \in QueueMaxRetriesArgs : enqueue(id, c, m)
    \/ \E n \in 1..MaxProcs : start_workers(n)
    \/ \E p \in Procs : kill(p)
    \/ \E p \in Procs : run_loop(p)
    \/ \E p \in Procs : run_lease(p)
    \/ \E p \in Procs : process_job_success(p)
    \/ \E p \in Procs : process_job_failure(p)
    \/ \E p \in Procs : process_job_outcome(p)

SpecQueue == Init /\ [][NextQueue]_vars

\* Concurrent enqueue invocations, each in its two store accesses, and workers.
NextEnqueue ==
    \/ Tick
    \/ \E i \in Enqueuers, job_data \in JobDatas : enqueue_check(i, job_data)
    \/ \E i \in Enqueuers : enqueue_create(i)
    \/ \E n \in 1..MaxProcs : start_workers(n)
    \/ \E p \in Procs : run_loop(p)
    \/ \E p \in Procs : run_lease(p)
    \/ \E p \in Procs : process_job_success(p)
    \/ \E p \in Procs : process_job_failure(p)
    \/ \E p \in Procs : process_job_outcome(p)

SpecEnqueue == Init /\ [][NextEnqueue]_vars

\* Producers and workers on two job ids, with stop signals and no SIGKILL.
NextStop ==
    \/ Tick
    \/ \E id \in JobIds, c \in Commands, m \in QueueMaxRetriesArgs : enqueue(id, c, m)
    \/ \E n \in 1..MaxProcs : start_workers(n)
    \/ \E p \in Procs : _signal_handler(p)
    \/ \E p \in Procs : run_loop(p)
    \/ \E p \in Procs : run_lease(p)
    \/ \E p \in Procs : process_job_success(p)
    \/ \E p \in Procs : process_job_failure(p)
    \/ \E p \in Procs : process_job_outcome(p)

SpecStop == Init /\ [][NextStop]_vars

\* One job id, workers with stop signals and no SIGKILL.
NextStopOne ==
    \/ Tick
    \/ \E id \in OneJobId, c \in Commands, m \in QueueMaxRetriesArgs : enqueue(id, c, m)
    \/ \E n \in 1..MaxProcs : start_workers(n)
    \/ \E p \in Procs : _signal_handler(p)
    \/ \E p \in Procs : run_loop(p)
    \/ \E p \in Procs : run_lease(p)
    \/ \E p \in Procs : process_job_success(p)
    \/ \E p \in Procs : process_job_failure(p)
    \/ \E p \in Procs : process_job_outcome(p)

\* the steps of worker p
WorkerStep(p) ==
    \/ run_loop(p)
    \/ run_lease(p)
    \/ process_job_success(p)
    \/ process_job_failure(p)
    \/ process_job_outcome(p)

\* Producers and workers on two job ids; no worker is stopped or killed, time
\* advances, and every worker keeps taking steps.
NextFair ==
    \/ TickFair
    \/ \E id \in JobIds, c \in Commands, m \in QueueMaxRetriesArgs : enqueue(id, c, m)
    \/ \E n \in 1..MaxProcs : start_workers(n)
    \/ \E p \in Procs : run_loop(p)
    \/ \E p \in Procs : run_lease(p)
    \/ \E p \in Procs : process_job_success(p)
    \/ \E p \in Procs : process_job_failure(p)
    \/ \E p \in Procs : process_job_outcome(p)

FairSpec ==
    /\ Init
    /\ [][NextFair]_vars
    /\ WF_vars(TickFair)
    /\ \A p \in Procs : WF_vars(WorkerStep(p))

\* NextStopOne where every started worker keeps taking steps: the command in
\* flight terminates (subprocess.run returns or times out) and the idle sleep ends.
FairStopSpec ==
    /\ Init
    /\ [][NextStopOne]_vars
    /\ \A p \in Procs : WF_vars(WorkerStep(p))

\* The store from its creation on: openings, config set and get with the keys
\* and values as typed, producers, and time.
NextConfig ==
    \/ _init_db
    \/ Opened /\ Tick
    \/ Opened /\ \E key \in ConfigKeys, value \in ConfigValues : set(key, value)
    \/ Opened /\ \E key \in ConfigKeys : get(key)
    \/ Opened /\ \E id \in OneJobId, c \in Commands : enqueue(id, c, NULL)

SpecConfig == InitFresh /\ [][NextConfig]_vars

\* Producers and workers on two job ids, and the status command.
NextStatus ==
    \/ \E id \in JobIds, c \in Commands, m \in QueueMaxRetriesArgs : enqueue(id, c, m)
    \/ \E n \in 1..MaxProcs : start_workers(n)
    \/ \E p \in Procs : run_loop(p)
    \/ \E p \in Procs : run_lease(p)
    \/ \E p \in Procs : process_job_success(p)
    \/ \E p \in Procs : process_job_failure(p)
    \/ \E p \in Procs : process_job_outcome(p)
    \/ status

SpecStatus == Init /\ [][NextStatus]_vars

\* the steps of stop_workers once it has found tracked workers
StopStep == stop_workers_terminate \/ stop_workers_join

\* One manager used for several worker start / worker stop commands, with
\* producers and the workers it starts.
NextManager ==
    \/ Tick
    \/ \E id \in OneJobId, c \in Commands, m \in QueueMaxRetriesArgs : enqueue(id, c, m)
    \/ \E n \in 0..MaxProcs : start(n)
    \/ stop_workers
    \/ stop_workers_terminate
    \/ stop_workers_join
    \/ \E p \in Procs : run_loop(p)
    \/ \E p \in Procs : run_lease(p)
    \/ \E p \in Procs : process_job_success(p)
    \/ \E p \in Procs : process_job_failure(p)
    \/ \E p \in Procs : process_job_outcome(p)

SpecManager == Init /\ [][NextManager]_vars

\* stop_workers keeps taking its steps
FairManagerSpec == SpecManager /\ WF_vars(StopStep)

TypeOK ==
    /\ clock \in 0..MaxTime
    /\ \A j \in DOMAIN jobs : jobs[j].state \in States
    /\ \A k \in DOMAIN config : IsFloat(config[k])
    /\ \A i \in Enqueuers : enq[i].pc \in {"idle", "create", "done"}

\* --------------------------------------------------------------- claims
\* a worker that has been handed a job and has not yet written its outcome
\* (a killed worker never writes it)
Holds(p, id) == current[p] # NoJob /\ current[p].id = id

\* a live worker between the lease of a job and the outcome write
Executing(p, id) == pc[p] \in {"exec", "failed"} /\ current[p].id = id

\* the step is the write of a dlq retry on job id
IsDlqRetryWrite(id) == dlq_checked'[id] < dlq_checked[id]

\* C1: no get_next_pending_job call returns a job that another worker has been
\* handed and has not yet written an outcome for.
C1_NoDoubleLease ==
    [][\A p \in Procs :
          (pc[p] = "lease" /\ pc'[p] = "exec")
          => \A q \in Procs \ {p} : ~Holds(q, current'[p].id)]_vars

\* C2: in every reachable state at most one worker is between its lease of a
\* given job and its outcome write for that job.
C2_AtMostOneExecutor ==
    \A p, q \in Procs : \A id \in JobIds :
        (Executing(p, id) /\ Executing(q, id)) => p = q

\* C3: a completed job never changes state; a dead job changes state only by
\* the write of a dlq retry, and then to pending.
C3_TerminalStability ==
    [][\A j \in DOMAIN jobs :
          /\ jobs[j].state = "completed" => jobs'[j].state = "completed"
          /\ (jobs[j].state = "dead" /\ jobs'[j].state # "dead")
                => (IsDlqRetryWrite(j) /\ jobs'[j].state = "pending")]_vars

\* C4: a job with max_retries = m >= 1 whose command always fails is dead once
\* it has failed m times, with attempts = m: it is never failed (waiting for
\* another lease) with attempts >= m, and never dead with attempts # m.
C4_RetryBudget ==
    \A j \in DOMAIN jobs :
        (jobs[j].command = "fail" /\ jobs[j].max_retries >= 1)
        => /\ jobs[j].state = "dead" => jobs[j].attempts = jobs[j].max_retries
           /\ jobs[j].state = "failed" => jobs[j].attempts < jobs[j].max_retries

\* C5: a lease never moves a job from failed to processing while the job's
\* retry_at is later than the time of the lease.
C5_RetryGating ==
    [][\A j \in DOMAIN jobs :
          (jobs[j].state = "failed" /\ jobs'[j].state = "processing")
          => (jobs[j].retry_at = NULL \/ jobs[j].retry_at <= clock)]_vars

\* C6: for every job with a positive max_retries, attempts <= max_retries
\* while the job is pending, processing or failed, and attempts >= max_retries
\* once it is dead.
C6_AttemptsWithinBudget ==
    \A j \in DOMAIN jobs :
        jobs[j].max_retries >= 1
        => /\ jobs[j].state \in {"pending", "processing", "failed"}
                 => jobs[j].attempts <= jobs[j].max_retries
           /\ jobs[j].state = "dead" => jobs[j].attempts >= jobs[j].max_retries

\* C7: a job is processing if and only if locked_by and locked_at are both
\* non-null.
C7_LockIffProcessing ==
    \A j \in DOMAIN jobs :
        jobs[j].state = "processing"
        <=> (jobs[j].locked_by # NULL /\ jobs[j].locked_at # NULL)

\* a job that was leased and has left processing with its lock cleared
C7_Witness ==
    \E j \in DOMAIN jobs :
        /\ jobs[j].state \in {"completed", "failed", "dead"}
        /\ jobs[j].locked_by = NULL

\* C8: retry_at is non-null only for jobs in state failed.
C8_RetryAtOnlyWhenFailed ==
    \A j \in DOMAIN jobs : jobs[j].retry_at # NULL => jobs[j].state = "failed"

\* a job leased again after a failed attempt had set its retry_at
C8_Witness ==
    \E j \in DOMAIN jobs :
        /\ jobs[j].state = "processing"
        /\ jobs[j].attempts >= 1
        /\ jobs[j].retry_at = NULL

\* C9: in every step the attempts of every job do not decrease, unless the
\* step is the write of a dlq retry on that job, which sets them to 0.
C9_AttemptsMonotone ==
    [][\A j \in DOMAIN jobs :
          \/ jobs'[j].attempts >= jobs[j].attempts
          \/ (IsDlqRetryWrite(j) /\ jobs'[j].attempts = 0)]_vars

\* a job with counted failures that a dlq retry has reset
C9_Witness ==
    \E j \in DOMAIN jobs :
        /\ dlq_runs > 0
        /\ dlq_checked[j] = 0
        /\ jobs[j].state = "pending"
        /\ jobs[j].attempts = 0

\* C10: the max_retries of an existing job never changes, and a new job gets
\* the max_retries of the enqueue argument or, without one, the config value
\* of that moment.
C10_ConfigSnapshot ==
    [][/\ \A j \in DOMAIN jobs :
             j \in DOMAIN jobs' /\ jobs'[j].max_retries = jobs[j].max_retries
       /\ \A j \in (DOMAIN jobs') \ DOMAIN jobs :
             jobs'[j].max_retries \in
                 (MaxRetriesArgs \ {NULL}) \cup {ParseInt(config.max_retries)}]_vars

\* a job created from the config default (3), which config set has changed
\* since, and which has been leased and has failed since
C10_Witness ==
    \E j \in DOMAIN jobs :
        /\ jobs[j].max_retries = 3
        /\ config.max_retries = "1"
        /\ jobs[j].attempts >= 1

\* C11: the write of a dlq retry on a job that is dead leaves the job pending
\* with attempts 0, no retry_at and no lock, and with its id, command,
\* max_retries and created_at as they were.
C11_DlqRetryRoundTrip ==
    [][\A j \in DOMAIN jobs :
          (IsDlqRetryWrite(j) /\ jobs[j].state = "dead")
          => jobs' = [jobs EXCEPT ![j].state = "pending",
                                  ![j].attempts = 0,
                                  ![j].retry_at = NULL,
                                  ![j].locked_by = NULL,
                                  ![j].locked_at = NULL,
                                  ![j].updated_at = jobs'[j].updated_at]]_vars

\* a job that died after at least one attempt, was reset by the one dlq retry
\* made so far, and was leased again as a fresh job
C11_Witness ==
    \E j \in DOMAIN jobs, p \in Procs :
        /\ dlq_runs = 1
        /\ dlq_checked[j] = 0
        /\ pc[p] = "exec"
        /\ current[p].id = j
        /\ jobs[j].state = "processing"
        /\ jobs[j].attempts = 0
        /\ \A q \in Procs \ {p} : current[q] = NoJob

\* C12: a dlq retry resets a job only if the job is dead at the moment the
\* reset is written.
C12_RetryOnlyDead ==
    [][\A j \in DOMAIN jobs :
          IsDlqRetryWrite(j) => jobs[j].state = "dead"]_vars

\* the enqueue invocations for job id that have ended with exit code 0
Succeeded(id) ==
    {i \in Enqueuers : /\ enq[i].pc = "done"
                       /\ enq[i].exit = 0
                       /\ enq[i].job_data.id = id}

\* the step takes enqueue invocation i to its end
EnqueueEnds(i) == enq[i].pc # "done" /\ enq'[i].pc = "done"

\* C13: job ids are unique.  An enqueue of an id that is present fails and
\* leaves the jobs table unchanged, also when the row appeared between the
\* invocation's get_job and its INSERT; among the enqueue invocations for one
\* id exactly one succeeds, and every other one that has ended has failed.
C13_UniqueIds ==
    /\ [][\A i \in Enqueuers :
             (EnqueueEnds(i) /\ WellFormed(enq'[i].job_data)
                             /\ enq'[i].job_data.id \in DOMAIN jobs)
             => (enq'[i].exit = 1 /\ jobs' = jobs)]_vars
    /\ [](\A id \in JobIds :
             /\ id \in DOMAIN jobs <=> Cardinality(Succeeded(id)) = 1
             /\ Cardinality(Succeeded(id)) <= 1
             /\ \A i \in Enqueuers :
                   (enq[i].pc = "done" /\ WellFormed(enq[i].job_data)
                                       /\ enq[i].job_data.id = id)
                   => Cardinality(Succeeded(id)) = 1)

\* two enqueue invocations for one id both passed get_job before either
\* INSERT; one has created the job, a worker has since changed the row, and
\* the other has failed
C13_Witness ==
    \E i, k \in Enqueuers :
        /\ i # k
        /\ enq[i].pc = "done" /\ enq[i].exit = 0
        /\ enq[k].pc = "done" /\ enq[k].exit = 1
        /\ enq[k].err = "UNIQUE constraint failed: jobs.id"
        /\ enq[k].job_data.id = enq[i].job_data.id
        /\ enq[k].job_data.command # enq[i].job_data.command
        /\ jobs[enq[i].job_data.id].command = enq[i].job_data.command
        /\ jobs[enq[i].job_data.id].attempts > 0

\* C16: an enqueue whose job_data is malformed JSON, or has a missing or empty
\* id or command, ends with a non-zero exit code at its first step, leaves the
\* jobs table unchanged, and never reaches create_job.
C16_RejectsInvalid ==
    /\ [][\A i \in Enqueuers :
             (enq[i].pc = "idle" /\ enq'[i].pc # "idle"
                                 /\ ~WellFormed(enq'[i].job_data))
             => /\ enq'[i].pc = "done"
                /\ enq'[i].exit # 0
                /\ jobs' = jobs]_vars
    /\ [](\A i \in Enqueuers :
             (enq[i].pc = "create" \/ (enq[i].pc = "done" /\ enq[i].exit = 0))
             => WellFormed(enq[i].job_data))

\* one enqueue has created a job and one with no id and an empty command
\* has been rejected
C16_Witness ==
    \E i, k \in Enqueuers :
        /\ enq[i].pc = "done" /\ enq[i].exit = 0
        /\ enq[k].pc = "done" /\ enq[k].exit = 1
        /\ enq[k].job_data.json = "object"
        /\ enq[k].job_data.id = Missing
        /\ enq[k].job_data.command = ""
        /\ DOMAIN jobs # {}

\* C17: every job row has a max_retries that is a positive integer.
C17_PositiveMaxRetries ==
    \A j \in DOMAIN jobs : jobs[j].max_retries >= 1

\* C14: a worker that has exited through the cooperative path has written the
\* outcome of the job it was handed, and no job is left in state processing
\* under its worker id unless another worker holds that job.
C14_GracefulStop ==
    \A p \in Procs :
        pc[p] = "exited"
        => /\ current[p] = NoJob
           /\ \A j \in DOMAIN jobs :
                 ~ /\ jobs[j].state = "processing"
                   /\ jobs[j].locked_by = worker_id[p]
                   /\ \A q \in Procs \ {p} : ~Holds(q, j)

\* C15: once a worker is running, every job in the table eventually reaches
\* state completed or state dead.
C15_EventualCompletion ==
    \A j \in JobIds :
        (j \in DOMAIN jobs /\ \E p \in Procs : Live(p))
        ~> (j \in DOMAIN jobs /\ jobs[j].state \in {"completed", "dead"})

\* the row that a spelling of a config key stands for
CanonicalKey(key) ==
    IF key \in {"max-retries", "max_retries"} THEN "max_retries"
    ELSE "backoff_base"

\* the value passes the type validation of the key
ValidFor(key, value) ==
    IF CanonicalKey(key) = "max_retries" THEN IsInt(value) ELSE IsFloat(value)

\* C18: config set with either spelling of a key writes the one row of the
\* canonical underscore key and no other row; config get with either spelling
\* returns the value of that row; a config set whose value fails the type
\* validation exits non-zero and leaves the config unchanged.
C18_KeyNormalization ==
    [][/\ (cli_out' # cli_out /\ cli_out'.op = "set")
          => IF ValidFor(cli_out'.key, cli_out'.value)
             THEN /\ cli_out'.exit = 0
                  /\ config' = [config EXCEPT ![CanonicalKey(cli_out'.key)] =
                                                  cli_out'.value]
             ELSE /\ cli_out'.exit # 0
                  /\ config' = config
       /\ (cli_out' # cli_out /\ cli_out'.op = "get")
          => /\ cli_out'.exit = 0
             /\ cli_out'.value = config[CanonicalKey(cli_out'.key)]
             /\ config' = config]_vars

\* a config get with the dash spelling, right after a config set with the
\* underscore spelling, has returned a value that is not the default
C18_Witness ==
    /\ cli_out.op = "get"
    /\ cli_out.key = "backoff-base"
    /\ cli_out.prev_op = "set"
    /\ cli_out.prev_key = "backoff_base"
    /\ cli_out.value = "0.5"
    /\ cli_out.exit = 0
    /\ DOMAIN config = {"max_retries", "backoff_base"}

\* C20: opening the store in a new process leaves every job row and every
\* existing config value unchanged, and gives max_retries the value 3 and
\* backoff_base the value 2 only when the key is absent.
C20_Persistence ==
    [][(cli_out' # cli_out /\ cli_out'.op = "open")
       => /\ jobs' = jobs
          /\ DOMAIN config' = DOMAIN config \cup {"max_retries", "backoff_base"}
          /\ \A k \in DOMAIN config : config'[k] = config[k]
          /\ "max_retries" \notin DOMAIN config => config'.max_retries = "3"
          /\ "backoff_base" \notin DOMAIN config => config'.backoff_base = "2"]_vars

\* the store has been opened again right after a config set; the table holds
\* a job enqueued under the default max_retries, and both config values have
\* since been set to other values
C20_Witness ==
    /\ cli_out.op = "open"
    /\ cli_out.prev_op = "set"
    /\ config.max_retries = "1"
    /\ config.backoff_base = "0.5"
    /\ \E j \in DOMAIN jobs : jobs[j].max_retries = 3

\* C19: the counts that status gets from get_job_stats have an entry for each
\* of the five states and for nothing else, each entry is the number of jobs
\* in that state, and the five entries sum to the number of jobs.
C19_StatsComplete ==
    [][(cli_out'.seq # cli_out.seq /\ cli_out'.op = "status")
       => LET stats == cli_out'.value
          IN  /\ DOMAIN stats = States
              /\ \A s \in States :
                    stats[s] = Cardinality({j \in DOMAIN jobs : jobs[j].state = s})
              /\ stats.pending + stats.processing + stats.completed
                    + stats.failed + stats.dead = Cardinality(DOMAIN jobs)]_vars

\* status has reported one completed job, one dead job and 0 for the other
\* three states
C19_Witness ==
    /\ cli_out.op = "status"
    /\ cli_out.value.completed = 1
    /\ cli_out.value.dead = 1
    /\ cli_out.value.pending = 0
    /\ cli_out.value.processing = 0
    /\ cli_out.value.failed = 0

\* the step is a worker start command on the manager
IsStart == cli_out'.seq # cli_out.seq /\ cli_out'.op = "start"

\* C21: a worker start on a manager that tracks workers exits non-zero and
\* starts no process and tracks nothing new; a worker start that starts a
\* process found the tracked set empty.
C21_AlreadyRunning ==
    [][IsStart =>
          /\ processes # {} => /\ cli_out'.exit # 0
                               /\ pc' = pc
                               /\ processes' = processes
          /\ pc' # pc => processes = {}]_vars

\* a worker start for one worker has failed on a manager that tracks a worker
\* while a process could still be started
C21_Witness ==
    /\ cli_out.op = "start"
    /\ cli_out.value = 1
    /\ cli_out.exit = 1
    /\ cli_out.prev_op = "start"
    /\ processes # {}
    /\ Unstarted # {}

\* C22: stop_workers called with an empty tracked set changes nothing; called
\* with tracked workers it has signalled every one that was alive when it
\* starts to wait, it returns, and when it returns every tracked worker has
\* exited or has been killed and the tracked set is empty.
C22_StopTerminates ==
    /\ [][(stop_pc.at = "idle" /\ processes = {} /\ cli_out'.seq # cli_out.seq
                               /\ cli_out'.op = "stop")
          => UNCHANGED <<store, clock, workerVars, retryVars, enq, mgrVars>>]_vars
    /\ [][(stop_pc.at = "terminate" /\ stop_pc'.at = "join")
          => \A p \in processes : Live(p) => ~running'[p]]_vars
    /\ [][(stop_pc.at = "join" /\ stop_pc'.at = "idle")
          => /\ processes' = {}
             /\ \A p \in processes : pc'[p] \in {"exited", "killed"}]_vars
    /\ (stop_pc.at # "idle") ~> (stop_pc.at = "idle")

\* stop_workers has returned after one tracked worker left its loop on the
\* signal and the other was killed while it held a job
C22_Witness ==
    /\ cli_out.op = "stop"
    /\ cli_out.value = "All workers stopped"
    /\ processes = {}
    /\ \E p, q \in Procs : /\ pc[p] = "exited"
                            /\ pc[q] = "killed"
                            /\ current[q] # NoJob

\* C23: the value that increment_attempts returns is the attempts value of the
\* row after the increment.
C23_ReturnsNewCount ==
    [][\A p \in Procs :
          (pc[p] = "exec" /\ pc'[p] = "failed")
          => new_attempts'[p] = jobs'[current[p].id].attempts]_vars

\* C24: the row that a successful get_next_pending_job call returns is the
\* row that this call moved to processing.
C24_ReturnsLockedRow ==
    [][\A p \in Procs :
          (pc[p] = "lease" /\ pc'[p] = "exec")
          => /\ jobs[current'[p].id].state # "processing"
             /\ jobs'[current'[p].id].state = "processing"
             /\ jobs'[current'[p].id].locked_by = worker_id[p]
             /\ jobs'[current'[p].id].retry_at = NULL]_vars

\* the step is a lease by worker p that moves job j to processing
Leases(p, j) ==
    /\ pc[p] = "lease"
    /\ j \in DOMAIN jobs
    /\ jobs[j].state # "processing"
    /\ jobs'[j].state = "processing"

\* C25: a lease of a pending job happens only when no failed job has a
\* retry_at that is null or not later than the call's now, and no pending job
\* was created earlier; a lease of a failed job happens only when no other
\* failed job that is ready for retry was updated earlier.
C25_LeaseOrder ==
    [][\A p \in Procs, j \in DOMAIN jobs :
          Leases(p, j)
          => IF jobs[j].state = "pending"
             THEN /\ \A k \in DOMAIN jobs :
                        ~(jobs[k].state = "failed"
                          /\ (jobs[k].retry_at = NULL
                              \/ jobs[k].retry_at <= lease_now[p]))
                  /\ \A k \in DOMAIN jobs :
                        ~(jobs[k].state = "pending"
                          /\ jobs[k].created_at < jobs[j].created_at)
             ELSE \A k \in DOMAIN jobs \ {j} :
                        ~(jobs[k].state = "failed"
                          /\ (jobs[k].retry_at = NULL
                              \/ jobs[k].retry_at <= lease_now[p])
                          /\ jobs[k].updated_at < jobs[j].updated_at)]_vars

\* C26: no job is moved to processing by a worker whose running flag is false.
C26_NoLeaseAfterStop ==
    [][\A p \in Procs, j \in DOMAIN jobs : Leases(p, j) => running[p]]_vars

\* C27: a worker whose running flag has been set to false eventually exits;
\* at the loop test with the flag false its next step is the exit.
C27_WorkerTerminates ==
    /\ \A p \in Procs : (Live(p) /\ ~running[p]) ~> (pc[p] = "exited")
    /\ [][\A p \in Procs : (pc[p] = "loop" /\ ~running[p] /\ pc'[p] # "loop")
                               => pc'[p] = "exited"]_vars

\* C27 witness: every worker was signalled and has exited, and the job they
\* worked on has reached an outcome.
C27_Witness ==
    /\ \A p \in Procs : pc[p] = "exited" /\ ~running[p]
    /\ \E j \in DOMAIN jobs : jobs[j].state \in {"completed", "failed", "dead"}

\* C28: when the command of the job a worker holds exits 0, the step sets that
\* job to completed and leaves its attempts, max_retries and command as they were.
C28_SuccessPath ==
    [][\A p \in Procs :
          (pc[p] = "exec" /\ pc'[p] = "loop") =>
             LET j == current[p].id
             IN  /\ jobs'[j].state = "completed"
                 /\ jobs'[j].attempts = jobs[j].attempts
                 /\ jobs'[j].max_retries = jobs[j].max_retries
                 /\ jobs'[j].command = jobs[j].command]_vars

\* C28 witness: a job that succeeded on its first run.
C28_Witness ==
    \E j \in DOMAIN jobs :
        /\ jobs[j].state = "completed"
        /\ jobs[j].attempts = 0
        /\ jobs[j].locked_by = NULL

\* C29: a failed attempt that leaves the job with attempts = n < max_retries
\* sets it to failed with retry_at = failure time + backoff_base^n seconds.
C29_BackoffSchedule ==
    [][\A p \in Procs :
          (pc[p] = "failed" /\ pc'[p] = "loop"
             /\ jobs'[current[p].id].state = "failed") =>
             jobs'[current[p].id].retry_at =
                 RetryAt(clock, _calculate_backoff(backoff_base[p],
                                                   jobs'[current[p].id].attempts))]_vars

\* worker p was killed between leasing job j and writing its outcome
Stuck(p, j) ==
    /\ pc[p] = "killed"
    /\ current[p].id = j
    /\ j \in DOMAIN jobs
    /\ jobs[j].state = "processing"
    /\ jobs[j].locked_by = worker_id[p]

\* C30: the job of a worker killed between lease and outcome stays in
\* processing with the same locked_by and locked_at in every later state.
C30_StuckLease ==
    [][\A p \in Procs, j \in DOMAIN jobs :
          Stuck(p, j) => /\ jobs'[j].state = "processing"
                         /\ jobs'[j].locked_by = jobs[j].locked_by
                         /\ jobs'[j].locked_at = jobs[j].locked_at]_vars

====
